---- MODULE Spec2Model ----
(***************************************************************************)
(* Model of the GATT echo/telemetry server of src/src/main_server.rs: the  *)
(* tokio::select! loop of main (lines 161-276), the endpoint handles it    *)
(* owns (lines 143-157), and the teardown after the loop (lines 278-283).  *)
(* The transport (bluer), the peers and the clock are the environment.     *)
(***************************************************************************)
EXTENDS Integers, Sequences, FiniteSets, TLC

\* ------------------------------------------------------------------ bounds
\* events queued in all control streams together
MaxPending == 2
\* bytes a peer feeds into one reader attachment
MaxBytes == 3
\* largest MTU a peer negotiates (scaled down)
MaxMTU == 2
\* clock steps in the one-second sleep of the tick branch
Interval == 2
\* byte values a peer cycles through, 1..MaxByte (0 is the buffer's fill value)
MaxByte == 2
\* characteristics in use (attached, or with events queued) at one time
MaxPeers == 2

\* --------------------------------------------------------- characteristics
CPU_LOAD == "CPU_LOAD"
TEMPERATURE == "TEMPERATURE"
RAM_USAGE == "RAM_USAGE"
UPTIME == "UPTIME"
WRITE_REQUEST_RESPONSE == "WRITE_REQUEST_RESPONSE"

\* the four notify-only characteristics, in the order the tick branch writes them
TeleOrder == <<CPU_LOAD, TEMPERATURE, RAM_USAGE, UPTIME>>
Telemetry == {TeleOrder[i] : i \in 1..Len(TeleOrder)}
Characteristics == Telemetry \cup {WRITE_REQUEST_RESPONSE}
TeleIndex(c) == CHOOSE i \in 1..Len(TeleOrder) : TeleOrder[i] = c

\* the Sampler queries of the tick branch, in call order
SamplerQueries == {"cpu_load_aggregate", "done", "cpu_temp", "memory", "uptime"}

\* ------------------------------------------------------------------ values
\* Option<T>
None == <<>>
Some(x) == <<x>>

MTUs == 1..MaxMTU

\* CharacteristicControlEvent, and the None a control stream yields when it ends
WriteEvt(mtu) == [kind |-> "Write", mtu |-> mtu]
NotifyEvt(mtu) == [kind |-> "Notify", mtu |-> mtu]
EndOfStream == [kind |-> "None", mtu |-> 0]
NoEvent == [kind |-> "-", mtu |-> 0]

\* what a peer can make each control stream yield
EventsOf(c) ==
  IF c = WRITE_REQUEST_RESPONSE
  THEN {WriteEvt(m) : m \in MTUs} \cup {NotifyEvt(m) : m \in MTUs} \cup {EndOfStream}
  ELSE {NotifyEvt(MaxMTU), WriteEvt(MaxMTU), EndOfStream}

Min(a, b) == IF a < b THEN a ELSE b
\* vec![0; mtu]
Zeros(n) == [i \in 1..n |-> 0]
Drop(s, n) == SubSeq(s, n + 1, Len(s))
Take(s, n) == SubSeq(s, 1, n)

\* v.to_le_bytes() and v.to_be_bytes() of an n-byte unsigned integer
RECURSIVE to_le_bytes(_, _)
to_le_bytes(v, n) == IF n = 0 THEN <<>> ELSE <<v % 256>> \o to_le_bytes(v \div 256, n - 1)
RECURSIVE to_be_bytes(_, _)
to_be_bytes(v, n) == IF n = 0 THEN <<>> ELSE Append(to_be_bytes(v \div 256, n - 1), v % 256)

\* AsyncWriteExt::write_f32 and write_u64 (tokio): the value in big-endian order;
\* an f32 is given by its IEEE-754 bit pattern
write_f32(bits) == to_be_bytes(bits, 4)
write_u64(v) == to_be_bytes(v, 8)

\* what the Sampler returns on one tick: the f32 bit patterns of the system CPU load
\* and of the temperature, memory in MB, uptime in seconds
Snapshot(load, temp, total, free, secs) ==
  [system_cpu_load |-> load, cpu_temperature |-> temp,
   total |-> total, free |-> free, uptime |-> secs]
\* 0.37 and 48.5 C, up 125 s; 1.0 and 48.5 C, up 15479 s
Samples == {Snapshot(1052602532, 1111621632, 4, 1, 125),
            Snapshot(1065353216, 1111621632, 4, 3, 15479)}
NoSample == Snapshot(0, 0, 0, 0, 0)

\* let uptime_minutes = uptime.as_secs()/60
uptime_minutes(s) == s.uptime \div 60

\* format!("{:.2}/{:.2} MB", used_memory, total_memory), as the text's fields
usage(s) == <<s.total - s.free, "/", s.total, " MB">>

\* the bytes the tick branch writes to the sink of c
Encoded(c, s) ==
  CASE c = CPU_LOAD -> write_f32(s.system_cpu_load)
    [] c = TEMPERATURE -> write_f32(s.cpu_temperature)
    [] c = RAM_USAGE -> usage(s)
    [] c = UPTIME -> write_u64(uptime_minutes(s))

\* the bytes each telemetry sink received in a step that wrote the sinks in `writes`
Wire(s, writes) == [c \in Telemetry |-> IF c \in writes THEN Encoded(c, s) ELSE <<>>]

VARIABLES
  pc,                   \* "Running" | "Draining" | "Stopped" | "Failed" (main returned Err)
  app_handle,           \* "held" | "dropped"
  adv_handle,           \* "held" | "dropped"
  deregs,               \* how many times the transport registration was released
  cpu_load_writer_opt,
  temp_writer_opt,
  memory_writer_opt,
  uptime_writer_opt,
  write_opt,
  read_opt,
  read_buf,
  control,              \* per characteristic: events the control stream holds, oldest first
  inbound,              \* bytes the peer wrote that the present reader has not yet returned
  fed,                  \* bytes the peer wrote to the present reader, since it was paired
  sunk,                 \* bytes written to the present Duplex sink, since it was paired
  chunks,               \* lengths of the values written to it since bytes last arrived
  elapsed,              \* clock steps since the current sleep was created
  sinceTick,            \* clock steps since the last serviced tick (or start)
  last                  \* what the last step did

vars == <<pc, app_handle, adv_handle, deregs, cpu_load_writer_opt, temp_writer_opt,
          memory_writer_opt, uptime_writer_opt, write_opt, read_opt, read_buf,
          control, inbound, fed, sunk, chunks, elapsed, sinceTick, last>>

teleVars == <<cpu_load_writer_opt, temp_writer_opt, memory_writer_opt, uptime_writer_opt>>
duplexVars == <<write_opt, read_opt, read_buf>>
streamVars == <<inbound, fed, sunk, chunks>>
procVars == <<pc, app_handle, adv_handle, deregs>>

TeleWriter(c) ==
  CASE c = CPU_LOAD -> cpu_load_writer_opt
    [] c = TEMPERATURE -> temp_writer_opt
    [] c = RAM_USAGE -> memory_writer_opt
    [] c = UPTIME -> uptime_writer_opt

\* the record of a step
Did(alt, ev, res, writes, fault) ==
  [alt |-> alt, ev |-> ev, res |-> res, writes |-> writes, fault |-> fault,
   sample |-> NoSample, wire |-> Wire(NoSample, {})]
\* ... of a tick that sampled s
DidTick(s, res, writes, fault) ==
  [Did("tick", NoEvent, res, writes, fault) EXCEPT !.sample = s, !.wire = Wire(s, writes)]
Env == Did("env", NoEvent, "-", {}, "-")

Init ==
  /\ pc = "Running"
  /\ app_handle = "held"
  /\ adv_handle = "held"
  /\ deregs = 0
  /\ cpu_load_writer_opt = None
  /\ temp_writer_opt = None
  /\ memory_writer_opt = None
  /\ uptime_writer_opt = None
  /\ write_opt = None
  /\ read_opt = None
  /\ read_buf = <<>>
  /\ control = [c \in Characteristics |-> <<>>]
  /\ inbound = <<>>
  /\ fed = <<>>
  /\ sunk = <<>>
  /\ chunks = <<>>
  /\ elapsed = 0
  /\ sinceTick = 0
  /\ last = Env


\* ------------------------------------------------------------- environment
Pending == Len(control[CPU_LOAD]) + Len(control[TEMPERATURE]) + Len(control[RAM_USAGE])
           + Len(control[UPTIME]) + Len(control[WRITE_REQUEST_RESPONSE])

\* the characteristics a peer is attached to or has events queued for
InUse ==
  {c \in Characteristics :
     \/ control[c] # <<>>
     \/ c \in Telemetry /\ TeleWriter(c) # None
     \/ c = WRITE_REQUEST_RESPONSE /\ (write_opt # None \/ read_opt # None)}

Ended(c) == control[c] # <<>> /\ control[c][Len(control[c])] = EndOfStream

\* a peer attaches, or the transport closes the control stream of c
Emit(c, ev) ==
  /\ pc = "Running"
  /\ c \in InUse \/ Cardinality(InUse) < MaxPeers
  /\ Pending < MaxPending
  /\ ~Ended(c)
  /\ control' = [control EXCEPT ![c] = Append(@, ev)]
  /\ last' = Env
  /\ UNCHANGED <<procVars, teleVars, duplexVars, streamVars, elapsed, sinceTick>>

\* the byte a peer sends after the bytes s: 1, 2, .., MaxByte, 1, ..
NextByte(s) == IF s = <<>> THEN 1 ELSE (s[Len(s)] % MaxByte) + 1

\* the peer writes one byte to the attached reader
PeerSend ==
  /\ pc = "Running"
  /\ read_opt # None
  /\ Len(fed) < MaxBytes
  /\ inbound' = Append(inbound, NextByte(fed))
  /\ fed' = Append(fed, NextByte(fed))
  /\ chunks' = <<>>
  /\ last' = Env
  /\ UNCHANGED <<procVars, teleVars, duplexVars, control, sunk, elapsed, sinceTick>>

\* select! is blocked: no control stream holds an event, the echo read (if armed) has
\* no byte to return, and the sleep has not expired
Blocked ==
  /\ \A c \in Characteristics : control[c] = <<>>
  /\ read_opt = None \/ write_opt = None \/ inbound = <<>>
  /\ elapsed < Interval

\* time passes while the loop waits in select!
Advance ==
  /\ pc = "Running"
  /\ Blocked
  /\ elapsed' = elapsed + 1
  /\ last' = Env
  /\ UNCHANGED <<procVars, teleVars, duplexVars, control, streamVars, sinceTick>>

\* the same, with a stopwatch running since the last serviced tick
AdvanceTimed ==
  /\ pc = "Running"
  /\ Blocked
  /\ elapsed' = elapsed + 1
  /\ sinceTick' = Min(sinceTick + 1, Interval + 1)
  /\ last' = Env
  /\ UNCHANGED <<procVars, teleVars, duplexVars, control, streamVars>>

\* -------------------------------------------------------------- dispatcher
\* the loop re-enters select!, which creates a new sleep
Restart == elapsed' = 0

\* the process exits: its control streams and byte streams are closed
StreamsClosed ==
  /\ control' = [c \in Characteristics |-> <<>>]
  /\ inbound' = <<>>
  /\ fed' = <<>>
  /\ sunk' = <<>>
  /\ chunks' = <<>>

\* `?` on an Err: main returns, its locals (app_handle, adv_handle) are dropped
ErrReturn ==
  /\ pc' = "Failed"
  /\ app_handle' = "dropped"
  /\ adv_handle' = "dropped"
  /\ deregs' = deregs + 1
  /\ StreamsClosed

\* `break` out of the loop
Break ==
  /\ pc' = "Draining"
  /\ UNCHANGED <<app_handle, adv_handle, deregs>>

\* the match arm without its guard: Some(reader) => reader.read(..)
EchoArmedReaderOnly == read_opt # None

\* Some(reader) if write_opt.is_some() => reader.read(..), _ => future::pending()
EchoArmed == read_opt # None /\ write_opt # None

\* the branches of select!, in the order they are written
Branches == <<WRITE_REQUEST_RESPONSE, "echo", CPU_LOAD, TEMPERATURE, RAM_USAGE, UPTIME, "tick">>
BranchIndex(b) == CHOOSE i \in 1..Len(Branches) : Branches[i] = b

\* the future of branch b can complete
BranchReady(b) ==
  CASE b = "echo" -> EchoArmed
    [] b = "tick" -> elapsed = Interval
    [] OTHER -> control[b] # <<>>

\* select! with `biased;`: the first ready branch in written order is serviced
SelectedBiased(b) ==
  /\ BranchReady(b)
  /\ \A i \in 1..(BranchIndex(b) - 1) : ~BranchReady(Branches[i])

\* tokio::select! { .. } without `biased;`: polling starts at a random branch, so any
\* ready branch can be the one serviced
Selected(b) == BranchReady(b)

Next1(c) == Head(control[c])
Consume(c) == control' = [control EXCEPT ![c] = Tail(@)]

\* Some(CharacteristicControlEvent::Write(req)), req.accept() succeeds
AcceptWrite ==
  /\ pc = "Running"
  /\ Selected(WRITE_REQUEST_RESPONSE)
  /\ Next1(WRITE_REQUEST_RESPONSE).kind = "Write"
  /\ Consume(WRITE_REQUEST_RESPONSE)
  /\ read_buf' = Zeros(Next1(WRITE_REQUEST_RESPONSE).mtu)
  /\ read_opt' = Some(Next1(WRITE_REQUEST_RESPONSE).mtu)
  /\ inbound' = <<>>
  /\ fed' = <<>>
  /\ sunk' = <<>>
  /\ chunks' = <<>>
  /\ Restart
  /\ last' = Did(WRITE_REQUEST_RESPONSE, Next1(WRITE_REQUEST_RESPONSE), "ok", {}, "-")
  /\ UNCHANGED <<procVars, teleVars, write_opt, sinceTick>>

\* Some(CharacteristicControlEvent::Write(req)), req.accept()? returns Err
AcceptWriteFails ==
  /\ pc = "Running"
  /\ Selected(WRITE_REQUEST_RESPONSE)
  /\ Next1(WRITE_REQUEST_RESPONSE).kind = "Write"
  /\ read_buf' = Zeros(Next1(WRITE_REQUEST_RESPONSE).mtu)
  /\ ErrReturn
  /\ Restart
  /\ last' = Did(WRITE_REQUEST_RESPONSE, Next1(WRITE_REQUEST_RESPONSE), "accept_err", {}, "-")
  /\ UNCHANGED <<teleVars, write_opt, read_opt, sinceTick>>

\* Some(CharacteristicControlEvent::Notify(notifier)) on the Duplex characteristic
AcceptNotify ==
  /\ pc = "Running"
  /\ Selected(WRITE_REQUEST_RESPONSE)
  /\ Next1(WRITE_REQUEST_RESPONSE).kind = "Notify"
  /\ Consume(WRITE_REQUEST_RESPONSE)
  /\ write_opt' = Some(Next1(WRITE_REQUEST_RESPONSE).mtu)
  /\ fed' = inbound
  /\ sunk' = <<>>
  /\ chunks' = <<>>
  /\ Restart
  /\ last' = Did(WRITE_REQUEST_RESPONSE, Next1(WRITE_REQUEST_RESPONSE), "ok", {}, "-")
  /\ UNCHANGED <<procVars, teleVars, read_opt, read_buf, inbound, sinceTick>>

\* None => break
WriteRequestEnds ==
  /\ pc = "Running"
  /\ Selected(WRITE_REQUEST_RESPONSE)
  /\ Next1(WRITE_REQUEST_RESPONSE).kind = "None"
  /\ Break
  /\ Restart
  /\ last' = Did(WRITE_REQUEST_RESPONSE, EndOfStream, "break", {}, "-")
  /\ UNCHANGED <<teleVars, duplexVars, control, streamVars, sinceTick>>

\* evt = write_request_control.next() => ...
WriteRequestControl == AcceptWrite \/ AcceptWriteFails \/ AcceptNotify \/ WriteRequestEnds

\* the uptime branch pasted from the memory branch: it assigns memory_writer_opt
SetTeleWriterPasted(c, w) ==
  /\ cpu_load_writer_opt' = IF c = CPU_LOAD THEN w ELSE cpu_load_writer_opt
  /\ temp_writer_opt' = IF c = TEMPERATURE THEN w ELSE temp_writer_opt
  /\ memory_writer_opt' = IF c \in {RAM_USAGE, UPTIME} THEN w ELSE memory_writer_opt
  /\ uptime_writer_opt' = uptime_writer_opt

\* <c's writer>_opt = Some(notifier)
SetTeleWriter(c, w) ==
  /\ cpu_load_writer_opt' = IF c = CPU_LOAD THEN w ELSE cpu_load_writer_opt
  /\ temp_writer_opt' = IF c = TEMPERATURE THEN w ELSE temp_writer_opt
  /\ memory_writer_opt' = IF c = RAM_USAGE THEN w ELSE memory_writer_opt
  /\ uptime_writer_opt' = IF c = UPTIME THEN w ELSE uptime_writer_opt

\* Some(CharacteristicControlEvent::Notify(notifier)) on a telemetry characteristic
TeleNotify(c) ==
  /\ pc = "Running"
  /\ Selected(c)
  /\ Next1(c).kind = "Notify"
  /\ Consume(c)
  /\ SetTeleWriter(c, Some(Next1(c).mtu))
  /\ Restart
  /\ last' = Did(c, Next1(c), "ok", {}, "-")
  /\ UNCHANGED <<procVars, duplexVars, streamVars, sinceTick>>

\* None => break, and _ => {break}
TeleBreak(c) ==
  /\ pc = "Running"
  /\ Selected(c)
  /\ Next1(c).kind # "Notify"
  /\ IF Next1(c).kind = "None" THEN UNCHANGED control ELSE Consume(c)
  /\ Break
  /\ Restart
  /\ last' = Did(c, Next1(c), "break", {}, "-")
  /\ UNCHANGED <<teleVars, duplexVars, streamVars, sinceTick>>

\* evt = cpu_control.next() => ..., and the same for temp, memory, uptime
TeleControl(c) == TeleNotify(c) \/ TeleBreak(c)


\* a read that returns everything pending, whatever the buffer holds
ReadLenAll(buf, data) == Len(data)

\* reader.read(&mut read_buf): the most bytes one read can return (a read may return
\* fewer: whatever the transport has delivered, cut to the buffer)
ReadLen(buf, data) == Min(Len(buf), Len(data))
\* the buffer replaced by the bytes read: read_buf = read_buf[..n].to_vec()
ReadIntoTruncated(buf, data, n) == Take(data, n)

\* ... and the buffer after a read of n bytes
ReadInto(buf, data, n) == Take(data, n) \o Drop(buf, n)
\* the whole buffer instead of the n bytes read: read_buf.to_vec()
EchoValueWhole(buf, n) == buf

\* read_buf[..n].to_vec()
EchoValue(buf, n) == Take(buf, n)

\* the error of write_all only logged: the writer is kept
AfterWriteAllKeepsWriter(value, k) == write_opt

\* if let Err(err) = write_all(&value) { write_opt = None }: the writer after a
\* write_all that wrote k bytes of value
AfterWriteAll(value, k) == IF k < Len(value) THEN None ELSE write_opt

\* Ok(n), n > 0: write_all(&value) writes k bytes, and fails when k < n;
\* write_opt.as_mut().unwrap() panics when there is no writer
EchoData(n, k) ==
  /\ pc = "Running"
  /\ Selected("echo")
  /\ n >= 1
  /\ n <= ReadLen(read_buf, inbound)
  /\ read_buf' = ReadInto(read_buf, inbound, n)
  /\ LET value == EchoValue(read_buf', n)
     IN  /\ k \in 0..Len(value)
         /\ IF write_opt = None
            THEN /\ ErrReturn
                 /\ last' = Did("echo", NoEvent, "panic", {}, "-")
                 /\ UNCHANGED write_opt
            ELSE /\ inbound' = Drop(inbound, n)
                 /\ write_opt' = AfterWriteAll(value, k)
                 /\ sunk' = IF write_opt' = None THEN <<>> ELSE sunk \o Take(value, k)
                 /\ chunks' = IF write_opt' = None THEN <<>> ELSE Append(chunks, Len(value))
                 /\ fed' = IF write_opt' = None THEN inbound' ELSE fed
                 /\ last' = Did("echo", NoEvent,
                                IF k < Len(value) THEN "write_err" ELSE "ok", {}, "-")
                 /\ UNCHANGED <<procVars, control>>
  /\ Restart
  /\ UNCHANGED <<teleVars, read_opt, sinceTick>>

\* the reader is dropped: its stream is gone
ReaderGone ==
  /\ inbound' = <<>>
  /\ fed' = <<>>
  /\ sunk' = <<>>
  /\ chunks' = <<>>

\* Ok(0): the peer closed the stream (or the buffer is empty)
EchoEnd ==
  /\ pc = "Running"
  /\ Selected("echo")
  /\ ReadLen(read_buf, inbound) = 0
  /\ read_opt' = None
  /\ Restart
  /\ ReaderGone
  /\ last' = Did("echo", NoEvent, "eof", {}, "-")
  /\ UNCHANGED <<procVars, teleVars, write_opt, read_buf, control, sinceTick>>

\* Err(err)
EchoReadFails ==
  /\ pc = "Running"
  /\ Selected("echo")
  /\ read_opt' = None
  /\ Restart
  /\ ReaderGone
  /\ last' = Did("echo", NoEvent, "read_err", {}, "-")
  /\ UNCHANGED <<procVars, teleVars, write_opt, read_buf, control, sinceTick>>

\* read_res = async { ... } => match read_res { ... }
Echo == (\E n \in 1..MaxBytes, k \in 0..MaxBytes : EchoData(n, k)) \/ EchoEnd \/ EchoReadFails

\* the telemetry sinks that are present
Present == {c \in Telemetry : TeleWriter(c) # None}

\* the sinks written when the write (or, for the memory sink, the flush) of sink f fails:
\* the `?` returns from main, so the sinks after f are not reached
WrittenBefore(f, res) ==
  {c \in Present : TeleIndex(c) < TeleIndex(f) \/ (c = f /\ res = "flush_err")}

\* _ = time::sleep(1 s) => a Sampler query returns Err
TickSampleFails(q) ==
  /\ pc = "Running"
  /\ Selected("tick")
  /\ ErrReturn
  /\ Restart
  /\ sinceTick' = 0
  /\ last' = Did("tick", NoEvent, "sample_err", {}, q)
  /\ UNCHANGED <<teleVars, duplexVars>>

\* ... sampling succeeds and every present sink accepts its write
TickPublish(s) ==
  /\ pc = "Running"
  /\ Selected("tick")
  /\ Restart
  /\ sinceTick' = 0
  /\ last' = DidTick(s, "ok", Present, "-")
  /\ UNCHANGED <<procVars, teleVars, duplexVars, control, streamVars>>

\* ... sampling succeeds and the write (or flush) of the present sink f returns Err
TickWriteFails(s, f, res) ==
  /\ pc = "Running"
  /\ Selected("tick")
  /\ f \in Present
  /\ res = "write_err" \/ (res = "flush_err" /\ f = RAM_USAGE)
  /\ ErrReturn
  /\ Restart
  /\ sinceTick' = 0
  /\ last' = DidTick(s, res, WrittenBefore(f, res), f)
  /\ UNCHANGED <<teleVars, duplexVars>>

Tick ==
  \/ \E q \in SamplerQueries : TickSampleFails(q)
  \/ \E s \in Samples : TickPublish(s)
  \/ \E s \in Samples, f \in Telemetry, res \in {"write_err", "flush_err"} :
       TickWriteFails(s, f, res)

\* the teardown inside the loop with no return after it: the loop goes on
TeardownKeepsServing ==
  /\ pc = "Draining"
  /\ pc' = "Running"
  /\ app_handle' = "dropped"
  /\ adv_handle' = "dropped"
  /\ deregs' = deregs + 1
  /\ last' = Did("teardown", NoEvent, "ok", {}, "-")
  /\ UNCHANGED <<teleVars, duplexVars, control, streamVars, elapsed, sinceTick>>

\* after the loop: drop(app_handle); drop(adv_handle); sleep; Ok(())
Teardown ==
  /\ pc = "Draining"
  /\ pc' = "Stopped"
  /\ app_handle' = "dropped"
  /\ adv_handle' = "dropped"
  /\ deregs' = deregs + 1
  /\ StreamsClosed
  /\ last' = Did("teardown", NoEvent, "ok", {}, "-")
  /\ UNCHANGED <<teleVars, duplexVars, elapsed, sinceTick>>

Environment ==
  \/ \E c \in Characteristics : \E ev \in EventsOf(c) : Emit(c, ev)
  \/ PeerSend
  \/ Advance

Dispatcher ==
  \/ WriteRequestControl
  \/ \E c \in Telemetry : TeleControl(c)
  \/ Echo
  \/ Tick
  \/ Teardown

Next == Environment \/ Dispatcher

Spec == Init /\ [][Next]_vars

\* tokio::select! polls its branches in random order, so a branch that stays ready is
\* serviced; the statements after the loop run once the loop is left; the clock of the
\* sleep runs while the loop waits
Fairness ==
  /\ WF_vars(WriteRequestControl)
  /\ \A c \in Telemetry : WF_vars(TeleControl(c))
  /\ WF_vars(Tick)
  /\ WF_vars(Teardown)
  /\ WF_vars(Advance)

\* peers that write one byte per attachment
LiveEnvironment ==
  \/ \E c \in Characteristics : \E ev \in EventsOf(c) : Emit(c, ev)
  \/ (fed = <<>> /\ PeerSend)
  \/ Advance

LiveNext == LiveEnvironment \/ Dispatcher

LiveSpec == Init /\ [][LiveNext]_vars /\ Fairness

\* the telemetry side alone, with the stopwatch running
ClockNext ==
  \/ \E c \in Telemetry : \E ev \in EventsOf(c) : Emit(c, ev)
  \/ AdvanceTimed
  \/ \E c \in Telemetry : TeleControl(c)
  \/ Tick
  \/ Teardown

ClockSpec == Init /\ [][ClockNext]_vars


\* all endpoint handles the loop owns
Handles == <<cpu_load_writer_opt, temp_writer_opt, memory_writer_opt, uptime_writer_opt,
             write_opt, read_opt>>

WriteFaults == {"write_err", "flush_err"}

\* ------------------------------------------------------------------ claims

\* C1. Independent failure: after a tick on which the write to one telemetry sink
\* failed, that sink is absent, every other telemetry sink that is present has
\* received its write on that tick, and the dispatcher is Running.
C1_IndependentFailure ==
  (last.alt = "tick" /\ last.res \in WriteFaults) =>
    /\ pc = "Running"
    /\ TeleWriter(last.fault) = None
    /\ \A c \in Telemetry \ {last.fault} : TeleWriter(c) # None => c \in last.writes

\* C2. Tick skip on sample failure: a tick on which a Sampler query fails writes to no
\* telemetry sink, changes no endpoint handle, and leaves the dispatcher Running
\* (where the next tick is serviced).
C2_TickSkipOnSampleFailure ==
  [][(last'.alt = "tick" /\ last'.res = "sample_err") =>
       /\ last'.writes = {}
       /\ Handles' = Handles
       /\ pc' = "Running"]_vars

\* C8. No fault terminates the process: the dispatcher leaves Running only through the
\* loop's break on a listener branch, never in a step that met a fault (a failed accept,
\* a failed Sampler query, a failed telemetry write).
C8_NoFaultTerminates ==
  [][(pc = "Running" /\ pc' # "Running") => (last'.res = "break" /\ pc' = "Draining")]_vars


\* the branch of select! that services the control stream of c
Service(c) == IF c = WRITE_REQUEST_RESPONSE THEN WriteRequestControl ELSE TeleControl(c)

\* s is t with some events appended
IsPrefix(s, t) == Len(s) <= Len(t) /\ Take(t, Len(s)) = s

\* a control stream has ended and the loop has not yet polled it
EndPending(c) == pc = "Running" /\ control[c] # <<>> /\ Head(control[c]) = EndOfStream

\* C3. Shutdown drains first: once the event stream of an Accept Listener has ended,
\* the dispatcher goes Running -> Draining -> Stopped, whatever else is ready at that
\* moment: from such a state it leaves Running only to Draining, the step that services
\* the end goes to Draining, Draining goes only to Stopped, and the transport
\* registration is released exactly once, in the step that reaches Stopped.
C3_ShutdownDrainsFirst ==
  /\ [][(\E c \in Characteristics : EndPending(c)) => (pc' \in {"Running", "Draining"})]_vars
  /\ [][(last'.ev = EndOfStream) => (pc = "Running" /\ pc' = "Draining")]_vars
  /\ [][(pc = "Draining") => (pc' = "Stopped" /\ deregs' = deregs + 1)]_vars
  /\ [][(pc' \in {"Running", "Draining"}) =>
          (deregs' = 0 /\ app_handle' = "held" /\ adv_handle' = "held")]_vars
  /\ [][(pc' = "Stopped") =>
          (deregs' = 1 /\ app_handle' = "dropped" /\ adv_handle' = "dropped")]_vars

\* the bytes the reader has returned since reader and writer were last paired
Delivered == Take(fed, Len(fed) - Len(inbound))

\* C4. Echo fidelity: while the reader and the writer of the Duplex characteristic are
\* both present, the bytes written to the sink are exactly the bytes the reader has
\* returned, in order and unmodified (so a prefix of what the peer wrote, and all of it
\* once nothing is pending), whatever accept events and ticks were serviced in between.
C4_EchoFidelity ==
  (pc = "Running" /\ read_opt # None /\ write_opt # None) =>
    /\ sunk = Delivered
    /\ IsPrefix(sunk, fed)
    /\ (inbound = <<>> => sunk = fed)

C4_Witness ==
  /\ last.alt = "echo"
  /\ last.res = "ok"
  /\ read_opt # None
  /\ write_opt # None
  /\ Len(sunk) >= 2
  /\ sunk = fed
  /\ \E c \in Telemetry : TeleWriter(c) # None

\* C5. The echo branch is serviced, and bytes leave the reader, only in a state where
\* the Duplex reader and writer are both present; otherwise its future is pending.
C5_ReadOnlyWithWriter ==
  /\ [][(last'.alt = "echo") => (read_opt # None /\ write_opt # None)]_vars
  /\ [][(~IsPrefix(inbound, inbound')) =>
          \/ last'.alt = "echo"
          \/ last'.alt = WRITE_REQUEST_RESPONSE /\ last'.ev.kind = "Write"
          \/ pc' # "Running"]_vars

C5_Witness ==
  /\ pc = "Running"
  /\ read_opt # None
  /\ write_opt = None
  /\ inbound # <<>>
  /\ last.alt = "tick"

\* a reader with no writer
Absent == pc = "Running" /\ read_opt # None /\ write_opt = None

\* C6. Idempotent absence: while the Duplex characteristic has a reader and no writer,
\* a byte arriving at the reader changes nothing the loop owns (no handle, not the
\* buffer, not the sleep, not the dispatcher state), no echo step and no error happens,
\* and, for as long as that lasts, a queued accept event of any characteristic and a
\* tick that has become ready are each eventually serviced.
C6_IdempotentAbsence ==
  /\ [][(Absent /\ Len(inbound') > Len(inbound)) =>
          /\ inbound' = Append(inbound, NextByte(fed))
          /\ Handles' = Handles
          /\ read_buf' = read_buf
          /\ elapsed' = elapsed
          /\ procVars' = procVars]_vars
  /\ [][Absent => (last'.alt # "echo" /\ last'.res # "panic")]_vars
  /\ \A c \in Characteristics :
       (Absent /\ inbound # <<>> /\ control[c] # <<>>) ~> (last.alt = c \/ ~Absent)
  /\ (Absent /\ inbound # <<>> /\ elapsed = Interval) ~> (last.alt = "tick" \/ ~Absent)

\* C7. Echo failure handling: an echo step that reads 0 bytes or whose read fails clears
\* only the reader; one whose retransmission fails clears only the writer; either way
\* the other Duplex handle and the telemetry sinks are unchanged and the dispatcher
\* stays Running; with the writer absent no echo step happens, and the writer becomes
\* present again only in the step that services a Notify event of the Duplex
\* characteristic.
C7_EchoFailureHandling ==
  /\ [][(last'.alt = "echo" /\ last'.res \in {"eof", "read_err"}) =>
          /\ read_opt' = None
          /\ write_opt' = write_opt
          /\ teleVars' = teleVars
          /\ pc' = "Running"]_vars
  /\ [][(last'.alt = "echo" /\ last'.res = "write_err") =>
          /\ write_opt' = None
          /\ read_opt' = read_opt
          /\ teleVars' = teleVars
          /\ pc' = "Running"]_vars
  /\ [][(last'.alt = "echo" /\ last'.res = "ok") => Handles' = Handles]_vars
  /\ [][(write_opt = None) => last'.alt # "echo"]_vars
  /\ [][(write_opt = None /\ write_opt' # None) =>
          (last'.alt = WRITE_REQUEST_RESPONSE /\ last'.ev.kind = "Notify")]_vars

C7_Witness ==
  /\ pc = "Running"
  /\ last.alt = "echo"
  /\ last.res = "write_err"
  /\ write_opt = None
  /\ read_opt # None

\* C9. The tick is serviced once per interval: while Running, the time since the last
\* serviced tick (or since start) never exceeds the interval (servicing takes no time
\* in this model, and time does not pass while the sleep has expired).
C9_TickEveryInterval == (pc = "Running") => (sinceTick <= Interval)

\* C10. No accept event is lost or starved: a control stream changes only by an event
\* being appended or by its oldest event being serviced (or by the process exiting);
\* the step that services a stream services its oldest event and removes it; any
\* stream with a queued event can be the one serviced, whichever others are ready; and
\* a queued event is eventually serviced unless the dispatcher leaves Running.
C10_NoAcceptEventLost ==
  /\ [][\A c \in Characteristics :
          (control'[c] # control[c]) =>
             \/ \E ev \in EventsOf(c) : control'[c] = Append(control[c], ev)
             \/ (control[c] # <<>> /\ control'[c] = Tail(control[c])
                   /\ last'.alt = c /\ last'.ev = Head(control[c]))
             \/ pc' \in {"Stopped", "Failed"}]_vars
  /\ [][\A c \in Characteristics :
          (last'.alt = c) =>
             /\ control[c] # <<>>
             /\ last'.ev = Head(control[c])
             /\ (pc' = "Running" => control'[c] = Tail(control[c]))]_vars
  /\ [][\A c \in Characteristics :
          (pc = "Running" /\ control[c] # <<>>) => ENABLED Service(c)]_vars
  /\ \A c \in Characteristics :
       (pc = "Running" /\ control[c] # <<>>) ~> (last.alt = c \/ pc # "Running")

C10_Witness ==
  /\ pc = "Running"
  /\ last.alt = UPTIME
  /\ last.res = "ok"
  /\ control[CPU_LOAD] # <<>>

\* C11. On each tick whose sampling succeeds, every telemetry characteristic whose sink
\* is present at the start of the tick (other than one whose own write failed) receives
\* exactly the encoding of its own metric, a telemetry characteristic whose sink is
\* absent receives nothing, and the Duplex sink receives nothing.
C11_TickWritesPresentSinks ==
  [][(last'.alt = "tick" /\ last'.res # "sample_err") =>
       /\ \A c \in Telemetry \ {last'.fault} :
            /\ TeleWriter(c) # None =>
                 (c \in last'.writes /\ last'.wire[c] = Encoded(c, last'.sample))
            /\ TeleWriter(c) = None => (c \notin last'.writes /\ last'.wire[c] = <<>>)
       /\ Len(sunk') <= Len(sunk)]_vars

\* C14. Fixed-width telemetry values are emitted least-significant byte first: a tick
\* that wrote the uptime sink wrote floor(uptime seconds / 60) as 8 bytes in
\* little-endian order, and one that wrote the CPU load or temperature sink wrote the
\* 32-bit pattern as 4 bytes in little-endian order.
C14_LittleEndian ==
  (last.alt = "tick") =>
    /\ UPTIME \in last.writes =>
         last.wire[UPTIME] = to_le_bytes(last.sample.uptime \div 60, 8)
    /\ CPU_LOAD \in last.writes =>
         last.wire[CPU_LOAD] = to_le_bytes(last.sample.system_cpu_load, 4)
    /\ TEMPERATURE \in last.writes =>
         last.wire[TEMPERATURE] = to_le_bytes(last.sample.cpu_temperature, 4)

\* the chunk lengths of a payload of L bytes read through a buffer of M bytes
RECURSIVE Chunking(_, _)
Chunking(L, M) == IF L = 0 THEN <<>> ELSE <<Min(L, M)>> \o Chunking(L - Min(L, M), M)

RECURSIVE Sum(_)
Sum(s) == IF s = <<>> THEN 0 ELSE Head(s) + Sum(Tail(s))

Ceil(a, b) == (a + b - 1) \div b

ChunksWithinMTU ==
  (pc = "Running" /\ read_opt # None /\ write_opt # None) =>
    /\ \A i \in 1..Len(chunks) : chunks[i] >= 1 /\ chunks[i] <= read_opt[1]
    /\ inbound = <<>> => Len(chunks) >= Ceil(Sum(chunks), read_opt[1])

C13_ChunkWithinSinkMTU ==
  [][(last'.alt = "echo" /\ last'.res = "ok") =>
       (Len(sunk') - Len(sunk)) <= write_opt[1]]_vars

\* C15. A handle changes from absent to present only in the step that services an
\* accept event of its own characteristic (Notify installs the writer, Write on the
\* Duplex characteristic installs the reader), and that step leaves every other handle
\* unchanged; a handle changes from present to absent only in a step where a read or
\* write through it ended or failed.
C15_HandleFrame ==
  /\ [][\A c \in Telemetry :
          (TeleWriter(c) = None /\ TeleWriter(c)' # None) =>
             /\ last'.alt = c
             /\ last'.ev.kind = "Notify"
             /\ \A d \in Telemetry \ {c} : TeleWriter(d)' = TeleWriter(d)
             /\ write_opt' = write_opt
             /\ read_opt' = read_opt]_vars
  /\ [][(write_opt = None /\ write_opt' # None) =>
          /\ last'.alt = WRITE_REQUEST_RESPONSE
          /\ last'.ev.kind = "Notify"
          /\ read_opt' = read_opt
          /\ teleVars' = teleVars]_vars
  /\ [][(read_opt = None /\ read_opt' # None) =>
          /\ last'.alt = WRITE_REQUEST_RESPONSE
          /\ last'.ev.kind = "Write"
          /\ write_opt' = write_opt
          /\ teleVars' = teleVars]_vars
  /\ [][(read_opt # None /\ read_opt' = None) =>
          (last'.alt = "echo" /\ last'.res \in {"eof", "read_err"})]_vars
  /\ [][(write_opt # None /\ write_opt' = None) =>
          (last'.alt = "echo" /\ last'.res = "write_err")]_vars
  /\ [][\A c \in Telemetry :
          (TeleWriter(c) # None /\ TeleWriter(c)' = None) =>
             (last'.alt = "tick" /\ last'.res \in WriteFaults /\ last'.fault = c)]_vars

C15_Witness ==
  /\ pc = "Running"
  /\ last.alt = WRITE_REQUEST_RESPONSE
  /\ last.ev.kind = "Write"
  /\ read_opt # None
  /\ write_opt # None
  /\ \E c \in Telemetry : TeleWriter(c) # None

\* the receive buffer is as long as the MTU of the request that installed the reader
BufferSized == (pc = "Running" /\ read_opt # None) => Len(read_buf) = read_opt[1]

\* C16. Wherever the Duplex reader is present, the receive buffer's length equals the
\* MTU of the most recently serviced Write request (the step that services one sets
\* both, also when it replaces a reader of another MTU, and nothing else changes the
\* length), so no echo read returns more bytes than that MTU.
C16_BufferSizedToMTU ==
  /\ [][BufferSized']_vars
  /\ [][(last'.alt = WRITE_REQUEST_RESPONSE /\ last'.ev.kind = "Write") =>
          /\ Len(read_buf') = last'.ev.mtu
          /\ pc' = "Running" => read_opt' = Some(last'.ev.mtu)]_vars
  /\ [][(read_opt' # read_opt /\ read_opt' # None) =>
          (last'.alt = WRITE_REQUEST_RESPONSE /\ last'.ev.kind = "Write")]_vars
  /\ [][(Len(read_buf') # Len(read_buf)) =>
          (last'.alt = WRITE_REQUEST_RESPONSE /\ last'.ev.kind = "Write")]_vars
  /\ [][(last'.alt = "echo" /\ last'.res = "ok") =>
          (Len(sunk') - Len(sunk)) <= Len(read_buf)]_vars

C16_Witness ==
  /\ pc = "Running"
  /\ last.alt = "echo"
  /\ last.res = "ok"
  /\ read_opt = Some(1)
  /\ Len(read_buf) = 1
  /\ read_buf # Zeros(1)
  /\ control[WRITE_REQUEST_RESPONSE] # <<>>
  /\ Head(control[WRITE_REQUEST_RESPONSE]) = WriteEvt(2)

\* C17. Stopped is terminal and nothing is serviced after Running: once the dispatcher
\* has left Running it never returns to Running, the only step it takes is the teardown
\* from Draining to Stopped, and no step after Running services an accept event,
\* installs or clears a handle, or writes an echo chunk or a telemetry value; from
\* Stopped (and after main has returned) there is no step at all.
C17_StoppedIsTerminal ==
  /\ [][(pc # "Running") =>
          /\ pc' # "Running"
          /\ pc = "Draining"
          /\ pc' = "Stopped"
          /\ last'.alt = "teardown"
          /\ last'.writes = {}
          /\ Handles' = Handles
          /\ read_buf' = read_buf
          /\ Len(sunk') <= Len(sunk)
          /\ chunks' = <<>>]_vars
  /\ [][pc \notin {"Stopped", "Failed"}]_vars

C17_Witness ==
  /\ pc = "Stopped"
  /\ last.alt = "teardown"
  /\ \E c \in Telemetry : TeleWriter(c) # None
  /\ read_opt # None
  /\ write_opt # None

\* C18. The echo step's write never finds the writer absent: every echo step that
\* handles a read of n > 0 bytes starts in a state where the Duplex writer is present
\* (the read is polled only under the guard, and read and write are one step of the
\* loop), so write_opt.as_mut().unwrap() never panics.
C18_EchoWriterPresent ==
  /\ [][(last'.alt = "echo" /\ last'.res \in {"ok", "write_err", "panic"}) =>
          (write_opt # None /\ last'.res # "panic")]_vars
  /\ [][last'.res # "panic"]_vars

C18_Witness ==
  /\ pc = "Running"
  /\ last.alt = "echo"
  /\ last.res = "ok"
  /\ write_opt # None
  /\ chunks # <<>>
  /\ \E c \in Characteristics : control[c] # <<>>

\* C19. An event other than Notify (for example Write) on a telemetry characteristic is
\* treated like the end of its stream: the step that services it leaves Running for
\* Draining without changing any handle, and the registration is then released once
\* (Stopped); whereas the step that services a Write event on the Duplex characteristic
\* installs a reader of that event's MTU and stays Running.
C19_TelemetryWriteShutsDown ==
  /\ [][(last'.alt \in Telemetry /\ last'.ev.kind # "Notify") =>
          /\ pc = "Running"
          /\ pc' = "Draining"
          /\ Handles' = Handles]_vars
  /\ [][(pc = "Draining") =>
          (pc' = "Stopped" /\ deregs' = 1 /\ Handles' = Handles)]_vars
  /\ (pc = "Draining") ~> (pc = "Stopped")
  /\ [][(last'.alt = WRITE_REQUEST_RESPONSE /\ last'.ev.kind = "Write") =>
          /\ pc' = "Running"
          /\ read_opt' = Some(last'.ev.mtu)
          /\ write_opt' = write_opt
          /\ teleVars' = teleVars]_vars

====
